---- MODULE Spec2Model ----
(***************************************************************************)
(* Offline cache and mutation queue of the Wampums console.                *)
(*                                                                         *)
(*   - IndexedDBService (src/lib/indexedDBService.js): the Dexie database  *)
(*     'ScoutsAppDB' with the stores cacheData (primary key: key) and      *)
(*     offlineData (primary key: auto-incremented id).                     *)
(*   - the service worker (public/service-worker.js): the 'sync' event     *)
(*     listener and syncOfflineData, which drains offlineData through the  *)
(*     raw IndexedDB API.                                                  *)
(*   - the network gateway of the page (src/api/apiService.js,             *)
(*     authService.js) and the domain services on top of it                *)
(*     (attendanceService.js, organizationService.js).                     *)
(*   - the service worker's 'install' and 'fetch' listeners and            *)
(*     handleApiRequest, over the Cache API storage.                       *)
(*                                                                         *)
(* SpecCache runs the cache operations, SpecQueue the queue operations,    *)
(* SpecDrain and SpecOverlap the service worker's passes, SpecStorage      *)
(* every storage operation under rejection, SpecGateway the calls to the   *)
(* remote API, SpecAttendance and SpecReconnect the attendance flow with   *)
(* the passes, SpecFetch the service worker's fetch handling, SpecPass,    *)
(* SpecTeardown and SpecReplay one pass at a time, SpecStale and           *)
(* SpecParticipants the reads of the domain services, SpecWorker the       *)
(* worker's activation and push messages, SpecPoints the ManagePoints      *)
(* page and SpecApp the initialization of App.                             *)
(***************************************************************************)
EXTENDS Integers, Sequences, FiniteSets, TLC

VARIABLES
    now,          \* the wall clock read by Date.now(), in clock units
    cacheData,    \* the store cacheData: key -> [data, timestamp, expiration]
    cacheCall,    \* the last cache call of the page and what it returned
                  \* (ok: the storage layer served it; threw: it raised)
    written,      \* per key: the last completed setCachedData, and whether a
                  \* later overwrite or invalidate call has happened since
    offlineData,  \* the store offlineData: a set of records, primary key id
    nextId,       \* the auto-increment counter of offlineData ('++id')
    queueCall,    \* the last queue call of the page and what it returned
    requested,    \* per record id: the priority argument its caller passed
    pass,         \* per invocation slot of syncOfflineData: its position
    failures,     \* per record id: how many replays of it in a row have
                  \* ended in a client error
    onLine,       \* navigator.onLine of the page
    token,        \* localStorage 'jwtToken' (Null: no such item)
    orgId,        \* localStorage 'currentOrganizationId' (Null: no such item)
    location,     \* where the page is: the application or the login entry
    apiCall,      \* the last call of the page to the remote API: the request
                  \* sent and what the caller got back
    cacheStorage, \* the Cache API storage of the origin: cache name ->
                  \* (request url -> stored response)
    handler,      \* the fetch event the service worker is handling
    served,       \* the last response the service worker gave to a fetch
                  \* event, and how it was made
    registration, \* the service worker's registration: its lifecycle state,
                  \* the deletes its 'activate' listener has outstanding and
                  \* whether it controls the open pages
    push,         \* what the 'push' listener has shown and posted
    pointsPage,   \* the state of the ManagePoints page and its timer
    app           \* the state of the App component

vars == << now, cacheData, cacheCall, written, offlineData, nextId, queueCall,
           requested, pass, failures, onLine, token, orgId, location, apiCall,
           cacheStorage, handler, served, registration, push, pointsPage,
           app >>

cacheVars == << cacheData, cacheCall, written >>
queueVars == << offlineData, nextId, queueCall, requested, pass, failures >>
gatewayVars == << onLine, token, orgId, location, apiCall >>
workerVars == << cacheStorage, handler, served >>
uiVars == << registration, push, pointsPage, app >>

(***************************************************************************)
(* Bounds of the model.                                                    *)
(***************************************************************************)
MaxTime == 4      \* the clock stops advancing here
MaxTick == 1      \* how far the clock may advance between two reads of it
                  \* made by the same synchronous block
MaxQueue == 3     \* how many records are ever enqueued
MaxQueueTime == 1 \* the latest clock reading that stamps a queued record
MaxPasses == 2    \* how many invocations of syncOfflineData may overlap
FailCap == 3      \* the count of failures in a row saturates here
MaxChanges == 3   \* how many times the user changes points
MaxPush == 2      \* how many push messages arrive

Keys == {"attendance_d1", "groups"}
Values == {"v1", "v2"}
TTLs == {1, 2}
Null == "null"

Min(a, b) == IF a < b THEN a ELSE b

(***************************************************************************)
(* Dexie Table.put / Table.delete on a store keyed by `key`.               *)
(***************************************************************************)
Put(store, k, rec) ==
    [x \in (DOMAIN store) \cup {k} |-> IF x = k THEN rec ELSE store[x]]

Delete(store, k) ==
    [x \in (DOMAIN store) \ {k} |-> store[x]]

EmptyStore == [x \in {} |-> Null]

(***************************************************************************)
(* setCachedData builds its record from two reads of the clock: t1 for     *)
(* timestamp and t2 (>= t1) for expiration.                                *)
(***************************************************************************)
CacheRecord(data, t1, t2, expirationTime) ==
    [data |-> data, timestamp |-> t1, expiration |-> t2 + expirationTime]

NoCall == [op |-> "none", key |-> Null, allowStale |-> FALSE, at |-> 0,
           ok |-> FALSE, result |-> Null, threw |-> FALSE]

NotWritten == [valid |-> FALSE, data |-> Null, storedAt |-> 0, ttl |-> 0]

(***************************************************************************)
(* The clock.                                                              *)
(***************************************************************************)
Tick ==
    /\ now < MaxTime
    /\ now' = now + 1
    /\ UNCHANGED << cacheVars, queueVars, gatewayVars, workerVars, uiVars >>

(***************************************************************************)
(* IndexedDBService.setCachedData(key, data, expirationTime).  `fails` is  *)
(* the put being rejected by the storage layer: the catch returns false.   *)
(***************************************************************************)
SetCachedData(k, v, ttl, fails) ==
    /\ IF fails
       THEN /\ cacheCall' = [op |-> "set", key |-> k, allowStale |-> FALSE,
                             at |-> now, ok |-> FALSE, result |-> "false",
                             threw |-> FALSE]
            /\ UNCHANGED << now, cacheData, written >>
       ELSE \E d \in 0..MaxTick :
            /\ now + d <= MaxTime
            /\ now' = now + d
            /\ cacheData' = Put(cacheData, k, CacheRecord(v, now, now + d, ttl))
            /\ written' = [written EXCEPT ![k] =
                   [valid |-> TRUE, data |-> v, storedAt |-> now, ttl |-> ttl]]
            /\ cacheCall' = [op |-> "set", key |-> k, allowStale |-> FALSE,
                             at |-> now, ok |-> TRUE, result |-> "true",
                             threw |-> FALSE]
    /\ UNCHANGED << queueVars, gatewayVars, workerVars, uiVars >>

(***************************************************************************)
(* IndexedDBService.getCachedData(key).  The method declares one           *)
(* parameter: a second argument (the `true` the domain services pass for   *)
(* an allow-stale read) is not read.  An expired record is deleted.        *)
(***************************************************************************)
GetResult(store, k, t) ==
    IF k \in DOMAIN store /\ store[k].expiration > t
    THEN store[k].data
    ELSE Null

StoreAfterGet(store, k, t) ==
    IF k \in DOMAIN store /\ ~(store[k].expiration > t)
    THEN Delete(store, k)
    ELSE store

\* getCachedData with a catch that throws the storage error again.
GetCachedDataRethrows(k, allowStale, fails) ==
    /\ IF fails
       THEN /\ cacheCall' = [op |-> "get", key |-> k, allowStale |-> allowStale,
                             at |-> now, ok |-> FALSE, result |-> Null,
                             threw |-> TRUE]
            /\ UNCHANGED cacheData
       ELSE /\ cacheCall' = [op |-> "get", key |-> k, allowStale |-> allowStale,
                             at |-> now, ok |-> TRUE,
                             result |-> GetResult(cacheData, k, now),
                             threw |-> FALSE]
            /\ cacheData' = StoreAfterGet(cacheData, k, now)
    /\ UNCHANGED << now, written, queueVars, gatewayVars, workerVars, uiVars >>

GetCachedData(k, allowStale, fails) ==
    /\ IF fails
       THEN /\ cacheCall' = [op |-> "get", key |-> k, allowStale |-> allowStale,
                             at |-> now, ok |-> FALSE, result |-> Null,
                             threw |-> FALSE]
            /\ UNCHANGED cacheData
       ELSE /\ cacheCall' = [op |-> "get", key |-> k, allowStale |-> allowStale,
                             at |-> now, ok |-> TRUE,
                             result |-> GetResult(cacheData, k, now),
                             threw |-> FALSE]
            /\ cacheData' = StoreAfterGet(cacheData, k, now)
    /\ UNCHANGED << now, written, queueVars, gatewayVars, workerVars, uiVars >>

(***************************************************************************)
(* indexedDBService.clearCachedData(key), as the domain services call it.  *)
(* IndexedDBService defines no such method: the call throws a TypeError    *)
(* and no store is touched.                                                *)
(***************************************************************************)
ClearCachedData(k) ==
    /\ cacheCall' = [op |-> "clear", key |-> k, allowStale |-> FALSE,
                     at |-> now, ok |-> FALSE, result |-> Null, threw |-> TRUE]
    /\ written' = [written EXCEPT ![k].valid = FALSE]
    /\ UNCHANGED << now, cacheData, queueVars, gatewayVars, workerVars, uiVars >>

NextCache ==
    \/ Tick
    \/ \E k \in Keys, v \in Values, ttl \in TTLs, fails \in BOOLEAN :
           SetCachedData(k, v, ttl, fails)
    \/ \E k \in Keys, allowStale \in BOOLEAN, fails \in BOOLEAN :
           GetCachedData(k, allowStale, fails)
    \/ \E k \in Keys : ClearCachedData(k)

(***************************************************************************)
(* The mutation queue: the store offlineData.                              *)
(***************************************************************************)
Actions == {"updateAttendance", "awardHonor"}
SWHandled == {"saveParticipant", "updateAttendance", "saveGuardian"}
Payloads == {"p1", "p2"}
Priorities == {1, 2}
\* How a replay's fetch ends: response.ok; a response that is not ok (a 4xx;
\* a 5xx takes the same branch); the fetch rejecting for lack of a network.
Outcomes == {"ok", "clientError", "offline"}
Undefined == "undefined"

\* A JavaScript value used as an IndexedDB key: a number or a string.  Keys of
\* different types are never equal.
NumKey(n) == [type |-> "number", num |-> n]
StrKey(action, t) == [type |-> "string", str |-> << action, t >>]

KeyEquals(a, b) ==
    /\ a.type = b.type
    /\ IF a.type = "number" THEN a.num = b.num ELSE a.str = b.str

\* The primary key of a record of offlineData: the schema is
\* '++id, key, type, timestamp, expiration', so it is the auto-incremented id.
PrimaryKey(r) == NumKey(r.id)

\* record.f in JavaScript: undefined when the record has no such field.
Field(r, f) == IF f \in DOMAIN r THEN r[f] ELSE Undefined

\* The record saveOfflineData(action, data) builds (two reads of the clock),
\* with the id the store gives it.  A third argument is not read.
OfflineRecord(action, data, t1, t2, id) ==
    [id |-> id, key |-> StrKey(action, t1), type |-> "offline",
     action |-> action, data |-> data, timestamp |-> t2, retryCount |-> 0]

\* A delete that looks the record up by its field `key`.
DeleteByKeyField(store, k) == {r \in store : ~KeyEquals(r.key, k)}

\* IDBObjectStore.delete(key) / Dexie Table.delete(key): by primary key.
DeleteByKey(store, k) == {r \in store : ~KeyEquals(PrimaryKey(r), k)}

\* updateRetryCount(key, retryCount): store.get(key), then store.put of the
\* record with the new count; nothing when no record has that primary key.
PutRetryCount(store, k, n) ==
    {IF KeyEquals(PrimaryKey(r), k) THEN [r EXCEPT !.retryCount = n] ELSE r :
         r \in store}

\* The records an index on `type` returns for 'offline': in primary-key order.
RECURSIVE SortById(_)
SortById(S) ==
    IF S = {} THEN << >>
    ELSE LET m == CHOOSE r \in S : \A q \in S : r.id <= q.id
         IN  << m >> \o SortById(S \ {m})

OfflineRecords(store) == SortById({r \in store : r.type = "offline"})

NoQueueCall == [op |-> "none", id |-> 0, ok |-> FALSE, threw |-> FALSE,
                list |-> << >>]

(***************************************************************************)
(* IndexedDBService.saveOfflineData(action, data), called by the domain    *)
(* services with a third argument, the priority.                           *)
(***************************************************************************)
\* The body of saveOfflineData: what it does to the clock and to the queue.
SaveOfflineDataBody(action, data, priority, fails) ==
    /\ nextId <= MaxQueue
    /\ IF fails
       THEN /\ queueCall' = [op |-> "save", id |-> 0, ok |-> FALSE,
                             threw |-> FALSE, list |-> << >>]
            /\ UNCHANGED << now, offlineData, nextId, requested >>
       ELSE \E d \in 0..MaxTick :
            /\ now + d <= MaxQueueTime
            /\ now' = now + d
            /\ offlineData' = offlineData \cup
                   {OfflineRecord(action, data, now, now + d, nextId)}
            /\ nextId' = nextId + 1
            /\ requested' = [requested EXCEPT ![nextId] = priority]
            /\ queueCall' = [op |-> "save", id |-> nextId, ok |-> TRUE,
                             threw |-> FALSE, list |-> << >>]

SaveOfflineData(action, data, priority, fails) ==
    /\ SaveOfflineDataBody(action, data, priority, fails)
    /\ UNCHANGED << cacheVars, pass, failures, gatewayVars, workerVars, uiVars >>

(***************************************************************************)
(* IndexedDBService.getOfflineData().                                      *)
(***************************************************************************)
\* queueCall.id of a list call: the id given by the save made just before
\* it, 0 when the call before it was not a save that stored a record.
JustSaved == IF queueCall.op = "save" /\ queueCall.ok THEN queueCall.id ELSE 0

GetOfflineData(fails) ==
    /\ queueCall' = [op |-> "list", id |-> JustSaved, ok |-> ~fails,
                     threw |-> FALSE,
                     list |-> IF fails THEN << >> ELSE OfflineRecords(offlineData)]
    /\ UNCHANGED << now, cacheVars, offlineData, nextId, requested, pass,
                    failures,
                    gatewayVars, workerVars, uiVars >>

(***************************************************************************)
(* indexedDBService.getPendingOfflineData(), as the page's syncOffline*    *)
(* functions call it.  IndexedDBService defines no such method: the call   *)
(* throws a TypeError.                                                     *)
(***************************************************************************)
GetPendingOfflineData ==
    /\ queueCall' = [op |-> "listPending", id |-> JustSaved, ok |-> FALSE,
                     threw |-> TRUE, list |-> << >>]
    /\ UNCHANGED << now, cacheVars, offlineData, nextId, requested, pass,
                    failures,
                    gatewayVars, workerVars, uiVars >>

(***************************************************************************)
(* IndexedDBService.deleteOfflineRecord(key) and updateRetryCount(key,      *)
(* retryCount): Dexie's delete and update by primary key.  `fails` is the   *)
(* storage layer rejecting the operation: the catch returns false.          *)
(***************************************************************************)
DeleteOfflineRecord(id, fails) ==
    /\ queueCall' = [op |-> "delete", id |-> id, ok |-> ~fails,
                     threw |-> FALSE, list |-> << >>]
    /\ offlineData' = IF fails THEN offlineData
                      ELSE DeleteByKey(offlineData, NumKey(id))
    /\ UNCHANGED << now, cacheVars, nextId, requested, pass, failures,
                    gatewayVars, workerVars, uiVars >>

UpdateRetryCount(id, retryCount, fails) ==
    /\ queueCall' = [op |-> "retry", id |-> id, ok |-> ~fails,
                     threw |-> FALSE, list |-> << >>]
    /\ offlineData' = IF fails THEN offlineData
                      ELSE PutRetryCount(offlineData, NumKey(id), retryCount)
    /\ UNCHANGED << now, cacheVars, nextId, requested, pass, failures,
                    gatewayVars, workerVars, uiVars >>

(***************************************************************************)
(* The service worker: the 'sync' listener and syncOfflineData.            *)
(***************************************************************************)
Passes == 1..MaxPasses

IdlePass == [pc |-> "idle", snapshot |-> << >>, idx |-> 0, log |-> << >>]

\* A 'sync' event whose tag starts with 'offlineSync': syncOfflineData() is
\* called, in the first free slot.  Nothing records that an earlier call is
\* still running.
SyncEvent(p) ==
    /\ pass[p].pc = "idle"
    /\ \A q \in Passes : q < p => pass[q].pc # "idle"
    /\ pass' = [pass EXCEPT ![p] = [pc |-> "reading", snapshot |-> << >>,
                                    idx |-> 0, log |-> << >>]]
    /\ UNCHANGED << now, cacheVars, offlineData, nextId, queueCall,
                    requested, failures,
                    gatewayVars, workerVars, uiVars >>

\* openIndexedDB and getOfflineData(db).  `fails` is the open or the index
\* lookup being rejected: the catch of syncOfflineData ends the pass.
SWGetOfflineData(p, fails) ==
    /\ pass[p].pc = "reading"
    /\ LET snap == OfflineRecords(offlineData)
       IN  pass' = [pass EXCEPT ![p] =
               IF fails \/ Len(snap) = 0
               THEN IdlePass
               ELSE [@ EXCEPT !.pc = "loop", !.snapshot = snap, !.idx = 1]]
    /\ UNCHANGED << now, cacheVars, offlineData, nextId, queueCall,
                    requested, failures,
                    gatewayVars, workerVars, uiVars >>

\* processOfflineRecord(record) called without await: the loop goes on to the
\* next record while the fetch of this one is in flight.
DispatchWithoutAwait(p) ==
    /\ pass[p].pc = "loop"
    /\ pass[p].idx <= Len(pass[p].snapshot)
    /\ LET record == pass[p].snapshot[pass[p].idx]
       IN  pass' = [pass EXCEPT ![p].idx = @ + 1,
                       ![p].log = Append(@, [id |-> record.id,
                                             outcome |-> "inflight"])]
    /\ UNCHANGED << now, cacheVars, offlineData, nextId, queueCall,
                    requested, failures, gatewayVars, workerVars, uiVars >>

\* processOfflineRecord(record), up to its first await: the switch on
\* record.action.  A handled action starts its fetch; any other action takes
\* the default branch and the record goes straight to deleteOfflineRecord.
Dispatch(p) ==
    /\ pass[p].pc = "loop"
    /\ pass[p].idx <= Len(pass[p].snapshot)
    /\ LET record == pass[p].snapshot[pass[p].idx]
       IN  IF record.action \in SWHandled
           THEN /\ pass' = [pass EXCEPT ![p].pc = "replaying",
                       ![p].log = Append(@, [id |-> record.id,
                                             outcome |-> "inflight"])]
                /\ UNCHANGED offlineData
           ELSE /\ pass' = [pass EXCEPT ![p].idx = @ + 1,
                       ![p].log = Append(@, [id |-> record.id,
                                             outcome |-> "unknown"])]
                /\ offlineData' = DeleteByKey(offlineData, record.key)
    /\ UNCHANGED << now, cacheVars, nextId, queueCall, requested, failures,
                    gatewayVars, workerVars, uiVars >>

\* What processOfflineRecord does to the store once the replay has resolved:
\* deleteOfflineRecord(record.key) after a success; in the catch,
\* updateRetryCount(record.key, retryCount + 1) while retryCount < 3 and
\* deleteOfflineRecord(record.key) otherwise.
MaxRetries == 3

\* A replay whose record is removed by its id whatever the outcome.
StoreAfterReplayRemoves(store, record, outcome) ==
    {r \in store : r.id # record.id}

StoreAfterReplay(store, record, outcome) ==
    IF outcome = "ok"
    THEN DeleteByKey(store, record.key)
    ELSE IF record.retryCount < MaxRetries
         THEN PutRetryCount(store, record.key, record.retryCount + 1)
         ELSE DeleteByKey(store, record.key)

\* A replay made through the page's updateAttendance, whose catch queues the
\* payload again when the failure is tagged offline.
ReplayResolveEnqueues(p, outcome) ==
    /\ pass[p].pc = "replaying"
    /\ LET record == pass[p].snapshot[pass[p].idx]
       IN  /\ offlineData' =
                  IF outcome = "offline" /\ nextId <= MaxQueue
                  THEN offlineData \cup
                           {OfflineRecord(record.action, record.data, now, now,
                                          nextId)}
                  ELSE offlineData
           /\ nextId' = IF outcome = "offline" /\ nextId <= MaxQueue
                        THEN nextId + 1 ELSE nextId
           /\ pass' = [pass EXCEPT ![p].pc = "loop", ![p].idx = @ + 1,
                   ![p].log[Len(pass[p].log)].outcome = outcome]
    /\ UNCHANGED << now, cacheVars, queueCall, requested, failures,
                    gatewayVars, workerVars, uiVars >>

\* The fetch of syncParticipant / syncAttendance / syncGuardian resolves:
\* 'ok' is response.ok, every other outcome throws into the catch.
ReplayResolve(p, outcome) ==
    /\ pass[p].pc = "replaying"
    /\ LET record == pass[p].snapshot[pass[p].idx]
       IN  /\ offlineData' = StoreAfterReplay(offlineData, record, outcome)
           /\ pass' = [pass EXCEPT ![p].pc = "loop", ![p].idx = @ + 1,
                   ![p].log[Len(pass[p].log)].outcome = outcome]
           /\ failures' = [failures EXCEPT ![record.id] =
                  IF outcome = "clientError" THEN Min(@ + 1, FailCap) ELSE 0]
    /\ UNCHANGED << now, cacheVars, nextId, queueCall, requested,
                    gatewayVars, workerVars, uiVars >>

\* The for loop of syncOfflineData is over: the pass ends.
PassEnd(p) ==
    /\ pass[p].pc = "loop"
    /\ pass[p].idx > Len(pass[p].snapshot)
    /\ pass' = [pass EXCEPT ![p] = IdlePass]
    /\ UNCHANGED << now, cacheVars, offlineData, nextId, queueCall,
                    requested, failures,
                    gatewayVars, workerVars, uiVars >>

\* syncOfflineAttendanceData() of the page (syncOfflineGroupsData,
\* syncOfflineParticipantData and syncOfflinePointsData have the same
\* shape).  Its first statement calls indexedDBService.getPendingOfflineData,
\* which IndexedDBService does not define: the TypeError is caught by the
\* outer catch and the function returns {success: false}.  No record is
\* replayed and the store is not touched.
SyncOfflineAttendanceData ==
    /\ queueCall' = [op |-> "syncOfflineAttendanceData", id |-> 0,
                     ok |-> FALSE, threw |-> FALSE, list |-> << >>]
    /\ UNCHANGED << now, cacheVars, offlineData, nextId, requested, pass,
                    failures, gatewayVars, workerVars, uiVars >>

\* The browser terminates the service worker while the replay request of a
\* record is in flight (event.waitUntil has run out of time, or the worker is
\* stopped): the invocation never resumes, and nothing it would have done to
\* the store after the await is done.
Teardown(p) ==
    /\ pass[p].pc = "replaying"
    /\ pass' = [pass EXCEPT ![p].pc = "torn"]
    /\ UNCHANGED << now, cacheVars, offlineData, nextId, queueCall,
                    requested, failures, gatewayVars, workerVars, uiVars >>

\* The page's queue calls.
NextQueue ==
    \/ \E a \in Actions, d \in Payloads, pr \in Priorities, fails \in BOOLEAN :
           SaveOfflineData(a, d, pr, fails)
    \/ \E fails \in BOOLEAN : GetOfflineData(fails)
    \/ GetPendingOfflineData

\* Enqueues by the page and passes of the service worker in the slots given.
Enqueue(prios, payloads) ==
    \E a \in Actions, d \in payloads, pr \in prios :
        SaveOfflineData(a, d, pr, FALSE)

Drain(slots) ==
    \/ \E p \in slots : SyncEvent(p)
    \/ \E p \in slots, fails \in BOOLEAN : SWGetOfflineData(p, fails)
    \/ \E p \in slots : Dispatch(p)
    \/ \E p \in slots, o \in Outcomes : ReplayResolve(p, o)
    \/ \E p \in slots : PassEnd(p)

\* One pass at a time.
NextDrain == Enqueue(Priorities, Payloads) \/ Drain({1})

\* One pass at a time over records that differ in action only.
NextPass == Enqueue({1}, {"p1"}) \/ Drain({1})

\* The two places that replay the queue, one at a time: the service worker's
\* pass and the page's sync function.
NextReplay ==
    \/ Enqueue({1}, {"p1"})
    \/ Drain({1})
    \/ pass[1].pc = "idle" /\ offlineData # {} /\ SyncOfflineAttendanceData

\* A pass that is torn down, and the pass of the next 'sync' event.
NextTeardown ==
    \/ Enqueue({1}, {"p1"})
    \/ Drain({1})
    \/ Teardown(1)
    \/ pass[1].pc = "torn" /\ Drain({2})

\* Overlapping 'sync' events.
NextOverlap == Enqueue({1}, {"p1"}) \/ Drain(Passes)

(***************************************************************************)
(* The network gateway of the page: apiClient and fetchFromApi              *)
(* (src/api/apiService.js), authService, and the domain services that call  *)
(* the remote API.                                                          *)
(***************************************************************************)
Tokens == {"t1"}
OrgIds == {"o1"}

\* A header the request does not carry.
Absent == << >>

\* The template `Bearer ${token}`: a null token is written out as 'null'.
Bearer(tok) == << "Bearer", tok >>

\* The headers of a request: Authorization and the X-Organization-ID header
\* (header names are case-insensitive).
NoHeaders == [auth |-> Absent, org |-> Absent]

\* authService.getAuthHeaders(): each header only when its item is stored.
GetAuthHeaders(tok, org) ==
    [auth |-> IF tok # Null THEN Bearer(tok) ELSE Absent,
     org |-> IF org # Null THEN << org >> ELSE Absent]

\* How a call to the remote API ends, as the page sees it: a 2xx whose body
\* has success true ('ok') or false ('refused'), a 401, another 4xx, a 5xx,
\* no response at all ('network').
ApiOutcomes == {"ok", "refused", "unauthorized", "clientError", "serverError",
                "network"}

\* The outcomes on which axios rejects.
Rejects(o) == o \in {"unauthorized", "clientError", "serverError", "network"}

\* The response interceptor of apiClient on a rejection: a 401 removes
\* 'jwtToken' and sets window.location.href to '/login'.
TokenAfter(o, tok) == IF o = "unauthorized" THEN Null ELSE tok
LocationAfter(o, loc) == IF o = "unauthorized" THEN "login" ELSE loc

\* The catch of fetchFromApi: error.isOffline = true when navigator.onLine is
\* false at that moment, whatever the error is.
IsOffline(o, online) == Rejects(o) /\ ~online

NoApiCall == [op |-> "none", sent |-> FALSE, headers |-> NoHeaders,
              credential |-> Null, organization |-> Null, outcome |-> "none",
              isOffline |-> FALSE, result |-> "none", payload |-> Null,
              saved |-> 0]

\* The browser's 'offline' and 'online' events: navigator.onLine has changed
\* and App's handlers set the isOnline state and a notification.
HandleOffline ==
    /\ onLine
    /\ onLine' = FALSE
    /\ UNCHANGED << now, cacheVars, queueVars, token, orgId, location, apiCall,
                    workerVars, uiVars >>

HandleOnline ==
    /\ ~onLine
    /\ onLine' = TRUE
    /\ UNCHANGED << now, cacheVars, queueVars, token, orgId, location, apiCall,
                    workerVars, uiVars >>

\* authService.login(email, password): fetchOrganizationId() (the stored id,
\* else the id the server gives, which it stores), then the POST of
\* /public/login by plain axios with X-Organization-ID; a success stores the
\* token and the organization id.
Login(tok, org, o) ==
    LET organizationId == IF orgId # Null THEN orgId ELSE org
    IN  /\ apiCall' = [op |-> "login", sent |-> TRUE,
                       headers |-> [auth |-> Absent,
                                    org |-> << organizationId >>],
                       credential |-> token, organization |-> organizationId,
                       outcome |-> o, isOffline |-> FALSE,
                       result |-> IF o = "ok" THEN "loggedIn" ELSE "failed",
                       payload |-> Null, saved |-> 0]
        /\ token' = IF o = "ok" THEN tok ELSE token
        /\ orgId' = organizationId
        /\ UNCHANGED << now, cacheVars, queueVars, onLine, location,
                        workerVars, uiVars >>

\* authService.logout(): the POST of /logout with getAuthHeaders(), whose
\* failure is swallowed; then the items are removed and the page goes to
\* '/login'.
Logout(o) ==
    /\ apiCall' = [op |-> "logout", sent |-> TRUE,
                   headers |-> GetAuthHeaders(token, orgId),
                   credential |-> token, organization |-> orgId,
                   outcome |-> o, isOffline |-> FALSE, result |-> "loggedOut",
                   payload |-> Null, saved |-> 0]
    /\ token' = Null
    /\ orgId' = Null
    /\ location' = "login"
    /\ UNCHANGED << now, cacheVars, queueVars, onLine, workerVars, uiVars >>

\* fetchFromApi(endpoint, method, data): the request carries
\* getAuthHeaders() (the request interceptor merges the same headers in); a
\* rejection goes through the response interceptor and then the catch.
FetchFromApi(o) ==
    /\ apiCall' = [op |-> "fetchFromApi", sent |-> TRUE,
                   headers |-> GetAuthHeaders(token, orgId),
                   credential |-> token, organization |-> orgId,
                   outcome |-> o, isOffline |-> IsOffline(o, onLine),
                   result |-> IF Rejects(o) THEN "threw" ELSE "data",
                   payload |-> Null, saved |-> 0]
    /\ token' = TokenAfter(o, token)
    /\ location' = LocationAfter(o, location)
    /\ UNCHANGED << now, cacheVars, queueVars, onLine, orgId, workerVars, uiVars >>

\* attendanceService.updateAttendance(participantIds, status, date,
\* previousStatus); `payload` stands for the four arguments.  On
\* response.success it calls clearCachedData, which throws; a body without
\* success throws; the catch saves the payload when the error is tagged
\* isOffline, does not read what saveOfflineData returns, and returns
\* {success: true, offline: true}; any other error is thrown again.
AttendanceKey == "attendance_d1"

UpdateAttendance(payload, o, fails) ==
    LET tagged == IsOffline(o, onLine)
    IN  /\ IF tagged
           THEN SaveOfflineDataBody("updateAttendance", payload, 1, fails)
           ELSE /\ ~fails
                /\ UNCHANGED << now, offlineData, nextId, requested,
                                queueCall >>
        /\ IF o = "ok"
           THEN /\ cacheCall' = [op |-> "clear", key |-> AttendanceKey,
                                 allowStale |-> FALSE, at |-> now,
                                 ok |-> FALSE, result |-> Null,
                                 threw |-> TRUE]
                /\ written' = [written EXCEPT ![AttendanceKey].valid = FALSE]
           ELSE UNCHANGED << cacheCall, written >>
        /\ apiCall' = [op |-> "updateAttendance", sent |-> TRUE,
                       headers |-> GetAuthHeaders(token, orgId),
                       credential |-> token, organization |-> orgId,
                       outcome |-> o, isOffline |-> tagged,
                       result |-> IF tagged THEN "queued" ELSE "threw",
                       payload |-> payload,
                       saved |-> IF tagged THEN queueCall'.id ELSE 0]
        /\ token' = TokenAfter(o, token)
        /\ location' = LocationAfter(o, location)
        /\ UNCHANGED << cacheData, pass, failures, onLine, orgId, workerVars, uiVars >>

\* organizationService.getOrganizationFormFormats(organizationId): a cached
\* value is returned without a request; otherwise a raw fetch whose headers
\* are written out in place: Authorization always, from the template, and
\* X-Organization-ID from (organizationId || getCurrentOrganizationId())
\* .toString(), which throws when both are null.  A success is cached for 24
\* hours.
FormFormatsKey(org) == "form_formats_" \o org
FormFormatsTTL == 2

FormFormatsHeaders(tok, org) == [auth |-> Bearer(tok), org |-> << org >>]

GetOrganizationFormFormats(organizationId, v, o) ==
    LET currentOrgId == IF organizationId # Null THEN organizationId ELSE orgId
        cacheKey == FormFormatsKey(currentOrgId)
        cachedData == GetResult(cacheData, cacheKey, now)
        call == [op |-> "getOrganizationFormFormats", sent |-> FALSE,
                 headers |-> NoHeaders, credential |-> token,
                 organization |-> orgId, outcome |-> "none",
                 isOffline |-> FALSE, result |-> "threw", payload |-> Null,
                 saved |-> 0]
        getCall == [op |-> "get", key |-> cacheKey, allowStale |-> FALSE,
                    at |-> now, ok |-> TRUE, result |-> cachedData,
                    threw |-> FALSE]
    IN  /\ IF cachedData # Null
           THEN /\ apiCall' = [call EXCEPT !.result = "data"]
                /\ cacheCall' = getCall
                /\ UNCHANGED << now, cacheData >>
           ELSE IF currentOrgId = Null
           THEN /\ apiCall' = call
                /\ cacheCall' = getCall
                /\ cacheData' = StoreAfterGet(cacheData, cacheKey, now)
                /\ UNCHANGED now
           ELSE IF o # "ok"
           THEN /\ apiCall' = [call EXCEPT !.sent = TRUE, !.outcome = o,
                                   !.headers = FormFormatsHeaders(token,
                                                                  currentOrgId)]
                /\ cacheCall' = getCall
                /\ cacheData' = StoreAfterGet(cacheData, cacheKey, now)
                /\ UNCHANGED now
           ELSE \E d \in 0..MaxTick :
                /\ now + d <= MaxTime
                /\ now' = now + d
                /\ apiCall' = [call EXCEPT !.sent = TRUE, !.outcome = o,
                                   !.result = "data",
                                   !.headers = FormFormatsHeaders(token,
                                                                  currentOrgId)]
                /\ cacheData' = Put(cacheData, cacheKey,
                       CacheRecord(v, now, now + d, FormFormatsTTL))
                /\ cacheCall' = [op |-> "set", key |-> cacheKey,
                                 allowStale |-> FALSE, at |-> now, ok |-> TRUE,
                                 result |-> "true", threw |-> FALSE]
        /\ UNCHANGED << written, queueVars, onLine, token, orgId, location,
                        workerVars, uiVars >>

\* attendanceService.getAttendance(date).  A cached value is returned without
\* a request; otherwise fetchFromApi('attendance', 'GET'): a success is cached
\* for 5 minutes and returned; when the error is tagged isOffline the cache is
\* read again with (cacheKey, true) and a value found there is returned marked
\* isOffline; anything else is thrown.  `fails` is the storage layer
\* rejecting the cache operations of this call.
AttendanceTTL == 1

GetAttendance(v, o, fails) ==
    LET cachedData == IF fails THEN Null
                      ELSE GetResult(cacheData, AttendanceKey, now)
        afterGet == IF fails THEN cacheData
                    ELSE StoreAfterGet(cacheData, AttendanceKey, now)
        tagged == IsOffline(o, onLine)
        expiredCache == IF fails \/ ~tagged THEN Null
                        ELSE GetResult(afterGet, AttendanceKey, now)
        getCall == [op |-> "get", key |-> AttendanceKey,
                    allowStale |-> tagged, at |-> now, ok |-> ~fails,
                    result |-> IF tagged THEN expiredCache ELSE cachedData,
                    threw |-> FALSE]
        call == [op |-> "getAttendance", sent |-> TRUE,
                 headers |-> GetAuthHeaders(token, orgId),
                 credential |-> token, organization |-> orgId, outcome |-> o,
                 isOffline |-> tagged, result |-> "threw", payload |-> Null,
                 saved |-> 0]
    IN  IF cachedData # Null
        THEN /\ apiCall' = [call EXCEPT !.sent = FALSE, !.headers = NoHeaders,
                                !.outcome = "none", !.isOffline = FALSE,
                                !.result = cachedData]
             /\ cacheCall' = [getCall EXCEPT !.allowStale = FALSE,
                                             !.result = cachedData]
             /\ cacheData' = afterGet
             /\ UNCHANGED << now, written, queueVars, onLine, token, orgId,
                             location, workerVars, uiVars >>
        ELSE /\ IF o = "ok" /\ ~fails
                THEN \E d \in 0..MaxTick :
                     /\ now + d <= MaxTime
                     /\ now' = now + d
                     /\ cacheData' = Put(afterGet, AttendanceKey,
                            CacheRecord(v, now, now + d, AttendanceTTL))
                     /\ written' = [written EXCEPT ![AttendanceKey] =
                            [valid |-> TRUE, data |-> v, storedAt |-> now,
                             ttl |-> AttendanceTTL]]
                     /\ cacheCall' = [op |-> "set", key |-> AttendanceKey,
                                      allowStale |-> FALSE, at |-> now,
                                      ok |-> TRUE, result |-> "true",
                                      threw |-> FALSE]
                ELSE /\ cacheData' = afterGet
                     /\ cacheCall' =
                            IF o = "ok"
                            THEN [op |-> "set", key |-> AttendanceKey,
                                  allowStale |-> FALSE, at |-> now,
                                  ok |-> FALSE, result |-> "false",
                                  threw |-> FALSE]
                            ELSE getCall
                     /\ UNCHANGED << now, written >>
             /\ apiCall' = [call EXCEPT !.result =
                                IF o = "ok" THEN v
                                ELSE IF expiredCache # Null THEN expiredCache
                                ELSE "threw"]
             /\ token' = TokenAfter(o, token)
             /\ location' = LocationAfter(o, location)
             /\ UNCHANGED << queueVars, onLine, orgId, workerVars, uiVars >>

\* participantService.getParticipants(filters): the cache key is
\* `participants_list_${JSON.stringify(filters)}`.  A cached list is returned
\* without a request; otherwise fetchFromApi('participants', 'GET'): a success
\* is cached for 5 minutes and returned; an error tagged isOffline reads the
\* cache again with (cacheKey, true); anything else is thrown.
PARTICIPANTS_CACHE_KEY == "participants_list"
Filters == {"{}", "{\"groupId\":1}"}
ParticipantsKey(filters) == PARTICIPANTS_CACHE_KEY \o "_" \o filters
ParticipantsTTL == 1

GetParticipantsBody(filters, v, o) ==
    LET cacheKey == ParticipantsKey(filters)
        cachedData == GetResult(cacheData, cacheKey, now)
        afterGet == StoreAfterGet(cacheData, cacheKey, now)
        tagged == IsOffline(o, onLine)
        expiredCache == IF tagged THEN GetResult(afterGet, cacheKey, now)
                        ELSE Null
        call == [op |-> "getParticipants", sent |-> TRUE,
                 headers |-> GetAuthHeaders(token, orgId),
                 credential |-> token, organization |-> orgId, outcome |-> o,
                 isOffline |-> tagged, result |-> "threw",
                 payload |-> filters, saved |-> 0]
    IN  IF cachedData # Null
        THEN /\ apiCall' = [call EXCEPT !.sent = FALSE, !.headers = NoHeaders,
                                !.outcome = "none", !.isOffline = FALSE,
                                !.result = cachedData]
             /\ cacheCall' = [op |-> "get", key |-> cacheKey,
                              allowStale |-> FALSE, at |-> now, ok |-> TRUE,
                              result |-> cachedData, threw |-> FALSE]
             /\ cacheData' = afterGet
             /\ UNCHANGED << now, written, queueVars, onLine, token, orgId,
                             location, workerVars >>
        ELSE /\ IF o = "ok"
                THEN \E d \in 0..MaxTick :
                     /\ now + d <= MaxTime
                     /\ now' = now + d
                     /\ cacheData' = Put(afterGet, cacheKey,
                            CacheRecord(v, now, now + d, ParticipantsTTL))
                     /\ cacheCall' = [op |-> "set", key |-> cacheKey,
                                      allowStale |-> FALSE, at |-> now,
                                      ok |-> TRUE, result |-> "true",
                                      threw |-> FALSE]
                ELSE /\ cacheData' = afterGet
                     /\ cacheCall' = [op |-> "get", key |-> cacheKey,
                                      allowStale |-> tagged, at |-> now,
                                      ok |-> TRUE,
                                      result |-> IF tagged THEN expiredCache
                                                 ELSE cachedData,
                                      threw |-> FALSE]
                     /\ UNCHANGED now
             /\ apiCall' = [call EXCEPT !.result =
                                IF o = "ok" THEN v
                                ELSE IF expiredCache # Null THEN expiredCache
                                ELSE "threw"]
             /\ token' = TokenAfter(o, token)
             /\ location' = LocationAfter(o, location)
             /\ UNCHANGED << written, queueVars, onLine, orgId, workerVars >>

GetParticipants(filters, v, o) ==
    GetParticipantsBody(filters, v, o) /\ UNCHANGED uiVars

\* clearParticipantCaches(): clearCachedData('participants_list'), then
\* 'parent_participants', then 'participants_group_1' .. '_20', inside a
\* try.  IndexedDBService defines no clearCachedData: the first call throws a
\* TypeError, the catch logs it, and no key has been removed.  None of the
\* keys named is a key under which getParticipants stores a list.
ClearParticipantCaches(store) == store

\* participantService.createParticipant(participantData).  On
\* response.success it calls clearParticipantCaches and returns the response;
\* the catch saves the payload when the error is tagged isOffline and returns
\* {success: true, offline: true}; any other error is thrown again.
\* updateParticipant has the same shape.
CreateParticipant(payload, o, fails) ==
    LET tagged == IsOffline(o, onLine)
    IN  /\ IF tagged
           THEN SaveOfflineDataBody("createParticipant", payload, 2, fails)
           ELSE /\ ~fails
                /\ UNCHANGED << now, offlineData, nextId, requested,
                                queueCall >>
        /\ IF o = "ok"
           THEN /\ cacheCall' = [op |-> "clear",
                                 key |-> PARTICIPANTS_CACHE_KEY,
                                 allowStale |-> FALSE, at |-> now,
                                 ok |-> FALSE, result |-> Null,
                                 threw |-> TRUE]
                /\ cacheData' = ClearParticipantCaches(cacheData)
           ELSE UNCHANGED << cacheCall, cacheData >>
        /\ apiCall' = [op |-> "createParticipant", sent |-> TRUE,
                       headers |-> GetAuthHeaders(token, orgId),
                       credential |-> token, organization |-> orgId,
                       outcome |-> o, isOffline |-> tagged,
                       result |-> IF o = "ok" THEN "data"
                                  ELSE IF tagged THEN "queued" ELSE "threw",
                       payload |-> payload,
                       saved |-> IF tagged THEN queueCall'.id ELSE 0]
        /\ token' = TokenAfter(o, token)
        /\ location' = LocationAfter(o, location)
        /\ UNCHANGED << written, pass, failures, onLine, orgId, workerVars, uiVars >>

\* syncAttendance(data) of the service worker: the replay request of a queued
\* updateAttendance.  Its headers are written out in place from
\* localStorage.getItem; a worker scope that defines no localStorage raises a
\* ReferenceError before anything is sent.
SWReplayHeaders(tok, org) == [auth |-> Bearer(tok), org |-> << org >>]

SyncAttendance(hasLocalStorage, o) ==
    /\ \E r \in offlineData : r.action = "updateAttendance"
    /\ apiCall' = [op |-> "syncAttendance", sent |-> hasLocalStorage,
                   headers |-> IF hasLocalStorage
                               THEN SWReplayHeaders(token, orgId)
                               ELSE NoHeaders,
                   credential |-> token, organization |-> orgId,
                   outcome |-> IF hasLocalStorage THEN o ELSE "none",
                   isOffline |-> FALSE,
                   result |-> IF hasLocalStorage /\ o \in {"ok", "refused"}
                              THEN "data" ELSE "threw",
                   payload |-> Null, saved |-> 0]
    /\ UNCHANGED << now, cacheVars, queueVars, onLine, token, orgId, location,
                    workerVars, uiVars >>

NextGateway ==
    \/ HandleOffline
    \/ HandleOnline
    \/ \E tok \in Tokens, org \in OrgIds, o \in {"ok", "clientError"} :
           Login(tok, org, o)
    \/ \E o \in {"ok", "network"} : Logout(o)
    \/ \E o \in ApiOutcomes : FetchFromApi(o)
    \/ \E o \in ApiOutcomes, fails \in BOOLEAN :
           UpdateAttendance("p1", o, fails)
    \/ \E organizationId \in OrgIds \cup {Null}, v \in {"v1"},
          o \in {"ok", "clientError"} :
           GetOrganizationFormFormats(organizationId, v, o)
    \/ \E hasLocalStorage \in BOOLEAN, o \in {"ok", "network"} :
           SyncAttendance(hasLocalStorage, o)

\* The attendance page and the service worker: reads and updates of the
\* attendance of one date, and passes that replay what was queued.
NextAttendance ==
    \/ HandleOffline
    \/ HandleOnline
    \/ \E o \in {"ok", "network"} : GetAttendance("v1", o, FALSE)
    \/ \E o \in {"ok", "network"} : UpdateAttendance("p1", o, FALSE)
    \/ Drain({1})

\* Reads of the attendance of one date as time passes and the network comes
\* and goes; nothing invalidates the cache.
NextStale ==
    \/ Tick
    \/ HandleOffline
    \/ HandleOnline
    \/ \E v \in Values, o \in {"ok", "network", "serverError"} :
           GetAttendance(v, o, FALSE)

\* The participants page: lists read under two filters, and participants
\* created, as time passes.
NextParticipants ==
    \/ Tick
    \/ HandleOffline
    \/ HandleOnline
    \/ \E f \in Filters, v \in Values, o \in {"ok", "network"} :
           GetParticipants(f, v, o)
    \/ \E o \in {"ok", "network"} : CreateParticipant("p1", o, FALSE)

\* Reconnection: mutations queued while the page has no network, the online
\* and offline events, and passes whose replays the server accepts.
NextReconnect ==
    \/ HandleOffline
    \/ HandleOnline
    \/ UpdateAttendance("p1", "network", FALSE)
    \/ SyncEvent(1)
    \/ SWGetOfflineData(1, FALSE)
    \/ Dispatch(1)
    \/ ReplayResolve(1, "ok")
    \/ PassEnd(1)

\* A 'sync' event that is due is delivered, and a running pass runs on.
FairReconnect ==
    /\ WF_vars(SyncEvent(1))
    /\ WF_vars(SWGetOfflineData(1, FALSE))
    /\ WF_vars(Dispatch(1))
    /\ WF_vars(ReplayResolve(1, "ok"))
    /\ WF_vars(PassEnd(1))

\* Every operation of IndexedDBService on a storage layer that may reject it,
\* and getAttendance on top of it.  cacheData and offlineData are separate
\* tables that no operation touches together: a behaviour works on one of
\* them.
CacheUntouched == cacheCall = NoCall /\ apiCall = NoApiCall
QueueUntouched == queueCall = NoQueueCall

\* Whether the storage layer rejects the next operation on a table: either
\* answer while the other table is untouched.
CacheRejections == IF QueueUntouched THEN BOOLEAN ELSE {}
QueueRejections == IF CacheUntouched THEN BOOLEAN ELSE {}

NextStorage ==
    \/ \E fails \in CacheRejections : SetCachedData(AttendanceKey, "v2", 1, fails)
    \/ \E fails \in CacheRejections : GetCachedData(AttendanceKey, FALSE, fails)
    \/ \E fails \in CacheRejections : GetAttendance("v1", "ok", fails)
    \/ \E fails \in QueueRejections :
           SaveOfflineData("updateAttendance", "p1", 1, fails)
    \/ \E fails \in QueueRejections : GetOfflineData(fails)
    \/ \E id \in 1..MaxQueue, fails \in QueueRejections :
           DeleteOfflineRecord(id, fails)
    \/ \E id \in 1..MaxQueue, fails \in QueueRejections :
           UpdateRetryCount(id, 1, fails)

(***************************************************************************)
(* The service worker's fetch handling: the 'install' and 'fetch'          *)
(* listeners and handleApiRequest, over the Cache API storage.             *)
(***************************************************************************)
CACHE_NAME == "scouts-app-v1"
API_CACHE_NAME == "scouts-api-v1"

\* The entries of STATIC_ASSETS that the requests below can match.
STATIC_ASSETS == {"/", "/index.html"}

\* The origin the fetch listener hands to handleApiRequest.
ApiOrigin == "https://wampums-api.replit.app"
AppOrigin == "app"

\* The requests the pages make: a navigation to a precached document, a
\* navigation to a route of the application, an image that is not in the
\* manifest, a read and a mutation of the remote API.
Requests ==
    {[url |-> "/index.html", origin |-> AppOrigin, method |-> "GET",
      mode |-> "navigate"],
     [url |-> "/dashboard", origin |-> AppOrigin, method |-> "GET",
      mode |-> "navigate"],
     [url |-> "/uploads/photo.png", origin |-> AppOrigin, method |-> "GET",
      mode |-> "no-cors"],
     [url |-> "https://wampums-api.replit.app/api/attendance",
      origin |-> ApiOrigin, method |-> "GET", mode |-> "cors"],
     [url |-> "https://wampums-api.replit.app/api/update-attendance",
      origin |-> ApiOrigin, method |-> "POST", mode |-> "cors"]}

NoRequest == [url |-> "none", origin |-> "none", method |-> "none",
              mode |-> "none"]

Bodies == {"b1", "b2"}

\* How a fetch() of the worker ends: a 200, a 500, a rejection.
NetOutcomes == {"ok", "error", "fail"}

\* A response as its receiver sees it.  offline: the body says offline: true.
NoResponse == [status |-> 0, type |-> "none", body |-> Null, offline |-> FALSE]

\* The response the network gives to a request: type 'basic' from the
\* application's origin, 'cors' from the API's.
NetworkResponse(req, o, b) ==
    [status |-> IF o = "ok" THEN 200 ELSE 500,
     type |-> IF req.origin = AppOrigin THEN "basic" ELSE "cors",
     body |-> b, offline |-> FALSE]

\* new Response(JSON.stringify({success: false, offline: true, message}))
OfflineResponse ==
    [status |-> 200, type |-> "default", body |-> "offlineMessage",
     offline |-> TRUE]

\* caches.match(request): the stored response of the first cache that holds
\* the request's url, for a GET; undefined otherwise.
CachesMatch(storage, req) ==
    IF req.method = "GET" /\ \E n \in DOMAIN storage : req.url \in DOMAIN storage[n]
    THEN LET n == CHOOSE c \in DOMAIN storage : req.url \in DOMAIN storage[c]
         IN  storage[n][req.url]
    ELSE NoResponse

\* caches.open(name), which creates the cache when there is none, then
\* cache.put(request, response).
CachePut(storage, name, url, response) ==
    Put(storage, name,
        Put(IF name \in DOMAIN storage THEN storage[name] ELSE EmptyStore,
            url, response))

NoHandler == [pc |-> "idle", request |-> NoRequest, entry |-> NoResponse,
              toCache |-> NoResponse]

NotServed == [request |-> NoRequest, response |-> NoResponse,
              source |-> "none", net |-> "none", networkCalls |-> 0,
              entry |-> NoResponse]

\* The 'install' listener: caches.open(CACHE_NAME), then
\* cache.addAll(STATIC_ASSETS), which stores all the assets or, when a
\* fetch of one of them fails, none.
Install(b, ok) ==
    /\ handler.pc = "idle"
    /\ cacheStorage' =
           IF ok
           THEN Put(cacheStorage, CACHE_NAME,
                    [u \in (IF CACHE_NAME \in DOMAIN cacheStorage
                            THEN DOMAIN cacheStorage[CACHE_NAME] ELSE {})
                           \cup STATIC_ASSETS |->
                        IF u \in STATIC_ASSETS
                        THEN [status |-> 200, type |-> "basic", body |-> b,
                              offline |-> FALSE]
                        ELSE cacheStorage[CACHE_NAME][u]])
           ELSE IF CACHE_NAME \in DOMAIN cacheStorage THEN cacheStorage
           ELSE Put(cacheStorage, CACHE_NAME, EmptyStore)
    /\ UNCHANGED << now, cacheVars, queueVars, gatewayVars, uiVars, handler, served >>

\* The 'fetch' listener, up to its first call of the network.  A request to
\* the API's origin goes to handleApiRequest, which calls fetch at once; any
\* other request is looked up with caches.match: a hit is the response, a
\* miss calls fetch.  entry: what the cache storage holds for the request
\* when the event arrives.
EntryOf(storage, req) ==
    IF \E n \in DOMAIN storage : req.url \in DOMAIN storage[n]
    THEN storage[CHOOSE n \in DOMAIN storage : req.url \in DOMAIN storage[n]]
                [req.url]
    ELSE NoResponse

\* The listener with its two branches in the other order: network first for
\* every request.
FetchEventNetworkFirst(req) ==
    /\ handler.pc = "idle"
    /\ handler' = [pc |-> IF req.origin = ApiOrigin THEN "apiFetching"
                          ELSE "fetching",
                   request |-> req, entry |-> EntryOf(cacheStorage, req),
                   toCache |-> NoResponse]
    /\ UNCHANGED << now, cacheVars, queueVars, gatewayVars, uiVars, cacheStorage,
                    served >>

FetchEvent(req) ==
    /\ handler.pc = "idle"
    /\ LET response == CachesMatch(cacheStorage, req)
       IN  IF req.origin = ApiOrigin
           THEN /\ handler' = [pc |-> "apiFetching", request |-> req,
                               entry |-> EntryOf(cacheStorage, req),
                               toCache |-> NoResponse]
                /\ UNCHANGED served
           ELSE IF response # NoResponse
           THEN /\ served' = [request |-> req, response |-> response,
                              source |-> "cache", net |-> "none",
                              networkCalls |-> 0,
                              entry |-> EntryOf(cacheStorage, req)]
                /\ UNCHANGED handler
           ELSE /\ handler' = [pc |-> "fetching", request |-> req,
                               entry |-> EntryOf(cacheStorage, req),
                               toCache |-> NoResponse]
                /\ UNCHANGED served
    /\ UNCHANGED << now, cacheVars, queueVars, gatewayVars, uiVars, cacheStorage >>

\* The fetch of the listener's miss branch resolves.  A response that is not
\* a 200 of type basic is returned as it is; a 200 of type basic is returned
\* and a copy is handed to caches.open(CACHE_NAME).then(put), which nothing
\* waits for.  On a rejection a navigation gets caches.match('/offline.html')
\* and any other request gets null.
OfflinePage == [url |-> "/offline.html", origin |-> AppOrigin,
                method |-> "GET", mode |-> "navigate"]

StaticFetchResolve(o, b) ==
    /\ handler.pc = "fetching"
    /\ LET req == handler.request
           response == NetworkResponse(req, o, b)
           fallback == IF req.mode = "navigate"
                       THEN CachesMatch(cacheStorage, OfflinePage)
                       ELSE NoResponse
       IN  IF o = "fail"
           THEN /\ served' = [request |-> req, response |-> fallback,
                              source |-> IF fallback # NoResponse
                                         THEN "cache" ELSE "nothing",
                              net |-> o, networkCalls |-> 1,
                              entry |-> handler.entry]
                /\ handler' = NoHandler
           ELSE /\ served' = [request |-> req, response |-> response,
                              source |-> "network", net |-> o,
                              networkCalls |-> 1, entry |-> handler.entry]
                /\ handler' =
                       IF response.status # 200 \/ response.type # "basic"
                       THEN NoHandler
                       ELSE [handler EXCEPT !.pc = "caching",
                                            !.toCache = response]
    /\ UNCHANGED << now, cacheVars, queueVars, gatewayVars, uiVars, cacheStorage >>

\* The put that the miss branch started runs; `fails` is the cache storage
\* rejecting it (nothing handles the rejection).
StaticCachePut(fails) ==
    /\ handler.pc = "caching"
    /\ cacheStorage' = IF fails THEN cacheStorage
                       ELSE CachePut(cacheStorage, CACHE_NAME,
                                     handler.request.url, handler.toCache)
    /\ handler' = NoHandler
    /\ UNCHANGED << now, cacheVars, queueVars, gatewayVars, uiVars, served >>

\* The catch of handleApiRequest: the cached copy when caches.match finds
\* one, else the synthesized offline response.
ApiFallbackSynthesizedOnly(storage, req) == OfflineResponse

ApiFallback(storage, req) ==
    IF CachesMatch(storage, req) # NoResponse
    THEN CachesMatch(storage, req)
    ELSE OfflineResponse

\* handleApiRequest(request) once its fetch has resolved.  A response that is
\* ok is put in API_CACHE_NAME before it is returned; cache.put throws for a
\* request that is not a GET and when the storage rejects it (`putFails`),
\* and the throw lands in the same catch as a rejection of the fetch.
HandleApiRequest(o, b, putFails) ==
    /\ handler.pc = "apiFetching"
    /\ LET req == handler.request
           response == NetworkResponse(req, o, b)
           putThrows == req.method # "GET" \/ putFails
           caught == o = "fail" \/ (o = "ok" /\ putThrows)
           fallback == ApiFallback(cacheStorage, req)
       IN  /\ o # "ok" => ~putFails
           /\ served' = [request |-> req,
                         response |-> IF caught THEN fallback ELSE response,
                         source |-> IF ~caught THEN "network"
                                    ELSE IF fallback = OfflineResponse
                                    THEN "synthesized" ELSE "cache",
                         net |-> o, networkCalls |-> 1,
                         entry |-> handler.entry]
           /\ cacheStorage' =
                  IF o = "ok" /\ ~putThrows
                  THEN CachePut(cacheStorage, API_CACHE_NAME, req.url, response)
                  ELSE cacheStorage
    /\ handler' = NoHandler
    /\ UNCHANGED << now, cacheVars, queueVars, gatewayVars, uiVars >>

NextFetch ==
    \/ \E b \in Bodies, ok \in BOOLEAN : Install(b, ok)
    \/ \E req \in Requests : FetchEvent(req)
    \/ \E o \in NetOutcomes, b \in Bodies : StaticFetchResolve(o, b)
    \/ \E fails \in BOOLEAN : StaticCachePut(fails)
    \/ \E o \in NetOutcomes, b \in Bodies, putFails \in BOOLEAN :
           HandleApiRequest(o, b, putFails)

(***************************************************************************)
(* The service worker's lifecycle and its 'push' listener.                 *)
(***************************************************************************)
NoRegistration == [state |-> "installing", pc |-> "idle", toDelete |-> {},
                   claimed |-> FALSE, controlling |-> FALSE,
                   controlledWith |-> {}]

CurrentCaches == {CACHE_NAME, API_CACHE_NAME}

\* The caches an earlier version of the worker opened under its own names.
OldCaches == {"scouts-app-v0", "scouts-api-v0"}

\* An earlier version of the worker has left a cache behind.
OldCacheLeftBehind(name) ==
    /\ registration.state = "installing"
    /\ name \notin DOMAIN cacheStorage
    /\ cacheStorage' = Put(cacheStorage, name, EmptyStore)
    /\ UNCHANGED << now, cacheVars, queueVars, gatewayVars, handler, served,
                    uiVars >>

\* The 'activate' listener, run once the install has succeeded.  It calls
\* caches.keys(), hands the promise of the deletes to event.waitUntil, and
\* returns self.clients.claim(): claim is called in the listener's own turn,
\* before the promise of caches.keys() has resolved.
ActivateEvent ==
    /\ registration.state = "installing"
    /\ CACHE_NAME \in DOMAIN cacheStorage
    /\ STATIC_ASSETS \subseteq DOMAIN cacheStorage[CACHE_NAME]
    /\ registration' = [registration EXCEPT !.state = "activating",
                                            !.pc = "keys", !.claimed = TRUE]
    /\ UNCHANGED << now, cacheVars, queueVars, gatewayVars, workerVars,
                    push, pointsPage, app >>

\* caches.keys() resolves: caches.delete(key) is called for every key that
\* is neither CACHE_NAME nor API_CACHE_NAME.
CachesKeys ==
    /\ registration.pc = "keys"
    /\ registration' = [registration EXCEPT !.pc = "deleting",
           !.toDelete = DOMAIN cacheStorage \ CurrentCaches]
    /\ UNCHANGED << now, cacheVars, queueVars, gatewayVars, workerVars,
                    push, pointsPage, app >>

\* One of the deletes is carried out.
CachesDelete(key) ==
    /\ registration.pc = "deleting"
    /\ key \in registration.toDelete
    /\ cacheStorage' = Delete(cacheStorage, key)
    /\ registration' = [registration EXCEPT !.toDelete = @ \ {key}]
    /\ UNCHANGED << now, cacheVars, queueVars, gatewayVars, handler, served,
                    push, pointsPage, app >>

\* Promise.all of the deletes resolves: the worker is activated.
Activated ==
    /\ registration.pc = "deleting"
    /\ registration.toDelete = {}
    /\ registration' = [registration EXCEPT !.state = "activated",
                                            !.pc = "idle"]
    /\ UNCHANGED << now, cacheVars, queueVars, gatewayVars, workerVars,
                    push, pointsPage, app >>

\* clients.claim() takes effect: the open pages are controlled by this
\* worker.  controlledWith: the caches there are at that moment.
ClaimTakesEffect ==
    /\ registration.claimed
    /\ ~registration.controlling
    /\ registration' = [registration EXCEPT !.controlling = TRUE,
           !.controlledWith = DOMAIN cacheStorage]
    /\ UNCHANGED << now, cacheVars, queueVars, gatewayVars, workerVars,
                    push, pointsPage, app >>

\* The open pages of the application.
Clients == {"c1", "c2"}

NoPush == [events |-> 0, notifications |-> << >>, matching |-> << >>,
           inbox |-> [c \in Clients |-> << >>]]

\* What a push message carries: JSON with or without a url, text that is not
\* JSON, or nothing.
PushPayloads ==
    {[kind |-> "json", title |-> "t1", body |-> "b1", url |-> "/attendance"],
     [kind |-> "json", title |-> "t1", body |-> "b1"],
     [kind |-> "text", text |-> "raw"],
     [kind |-> "none"]}

\* `data` of the 'push' listener: the default object, replaced by
\* event.data.json() or, when that throws, given event.data.text() as body.
PushData(payload) ==
    IF payload.kind = "json"
    THEN [title |-> Field(payload, "title"), body |-> Field(payload, "body"),
          url |-> Field(payload, "url")]
    ELSE [title |-> "New Notification",
          body |-> IF payload.kind = "text" THEN payload.text
                   ELSE "Something new happened!",
          url |-> Undefined]

\* The 'push' listener: showNotification(data.title, {body, data: {url:
\* data.url || '/'}}), and clients.matchAll() whose result gets the message
\* {type: 'PUSH_ALERT', title, body, url: data.url}.
PushEvent(payload) ==
    /\ registration.state = "activated"
    /\ push.events < MaxPush
    /\ LET data == PushData(payload)
       IN  push' = [push EXCEPT
               !.events = @ + 1,
               !.notifications = Append(@,
                   [title |-> data.title, body |-> data.body,
                    url |-> IF data.url = Undefined THEN "/" ELSE data.url]),
               !.matching = Append(@,
                   [type |-> "PUSH_ALERT", title |-> data.title,
                    body |-> data.body, url |-> data.url])]
    /\ UNCHANGED << now, cacheVars, queueVars, gatewayVars, workerVars,
                    registration, pointsPage, app >>

\* clients.matchAll() resolves with the pages this worker controls, and each
\* gets the message.
MatchAllResolves ==
    /\ push.matching # << >>
    /\ push' = [push EXCEPT
           !.matching = Tail(@),
           !.inbox = [c \in Clients |->
                          IF registration.controlling
                          THEN Append(push.inbox[c], Head(push.matching))
                          ELSE push.inbox[c]]]
    /\ UNCHANGED << now, cacheVars, queueVars, gatewayVars, workerVars,
                    registration, pointsPage, app >>

\* The worker from its install to the push messages it receives.
NextWorker ==
    \/ \E name \in OldCaches : OldCacheLeftBehind(name)
    \/ \E b \in Bodies, ok \in BOOLEAN : Install(b, ok)
    \/ ActivateEvent
    \/ CachesKeys
    \/ \E key \in OldCaches : CachesDelete(key)
    \/ Activated
    \/ ClaimTakesEffect
    \/ \E payload \in PushPayloads : PushEvent(payload)
    \/ MatchAllResolves

(***************************************************************************)
(* The ManagePoints page.                                                  *)
(***************************************************************************)
NoCallback == [pc |-> "idle", batch |-> << >>]

NoPointsPage == [selectedItem |-> "none", pendingUpdates |-> << >>,
                 updateTimeout |-> 0, timers |-> {}, callback |-> NoCallback,
                 sent |-> << >>, made |-> 0]

\* handleItemClick(item, type): selects the item, or unselects it when it is
\* the selected one.  The page shows one participant, a, and one group, whose
\* participants are a and b.
HandleItemClick(type) ==
    /\ pointsPage' = [pointsPage EXCEPT !.selectedItem =
                          IF @ = type THEN "none" ELSE type]
    /\ UNCHANGED << now, cacheVars, queueVars, gatewayVars, workerVars,
                    registration, push, app >>

\* The updates handlePointsChange builds for the selected item; `change`
\* numbers the calls of handlePointsChange.
UpdatesFor(selectedItem, pointsToAdd, change) ==
    IF selectedItem = "group"
    THEN << [participant_id |-> "a", points_change |-> pointsToAdd,
             change |-> change],
            [participant_id |-> "b", points_change |-> pointsToAdd,
             change |-> change] >>
    ELSE << [participant_id |-> "a", points_change |-> pointsToAdd,
             change |-> change] >>

\* handlePointsChange(pointsToAdd).  Without a selected item it only sets a
\* notification.  Otherwise: setPendingUpdates(prev => [...prev, ...updates]);
\* clearTimeout(updateTimeout) when there is one; setTimeout of a callback
\* that closes over pendingUpdates as this render has it, that is without
\* the updates of this call; setUpdateTimeout.  The component renders again
\* before the next event.
HandlePointsChange(pointsToAdd) ==
    /\ pointsPage.made < MaxChanges
    /\ IF pointsPage.selectedItem = "none"
       THEN UNCHANGED pointsPage
       ELSE LET change == pointsPage.made + 1
                updates == UpdatesFor(pointsPage.selectedItem, pointsToAdd,
                                      change)
            IN  pointsPage' = [pointsPage EXCEPT
                    !.pendingUpdates = @ \o updates,
                    !.timers = {t \in @ : t.id # pointsPage.updateTimeout}
                               \cup {[id |-> change,
                                      batch |-> pointsPage.pendingUpdates]},
                    !.updateTimeout = change,
                    !.made = change]
    /\ UNCHANGED << now, cacheVars, queueVars, gatewayVars, workerVars,
                    registration, push, app >>

\* The timer fires after its second: the callback calls
\* pointsService.updatePoints with the array it closed over.
TimerFires ==
    /\ pointsPage.callback.pc = "idle"
    /\ \E t \in pointsPage.timers :
           pointsPage' = [pointsPage EXCEPT
               !.timers = @ \ {t},
               !.callback = [pc |-> "updating", batch |-> t.batch],
               !.sent = Append(@, t.batch)]
    /\ UNCHANGED << now, cacheVars, queueVars, gatewayVars, workerVars,
                    registration, push, app >>

\* pointsService.updatePoints(updates) resolves.  On response.success it
\* calls clearPointsCaches, whose clearCachedData throws into its own catch,
\* and returns; the catch saves the updates when the error is tagged
\* isOffline and returns {success: true, offline: true}; any other error is
\* thrown to the callback, whose catch sets a notification.
UpdatePointsResolve(o, fails) ==
    LET tagged == IsOffline(o, onLine)
        batch == pointsPage.callback.batch
    IN  /\ pointsPage.callback.pc = "updating"
        /\ IF tagged
           THEN SaveOfflineDataBody("updatePoints", batch, 1, fails)
           ELSE /\ ~fails
                /\ UNCHANGED << now, offlineData, nextId, requested,
                                queueCall >>
        /\ IF o = "ok"
           THEN cacheCall' = [op |-> "clear", key |-> "points_report",
                              allowStale |-> FALSE, at |-> now, ok |-> FALSE,
                              result |-> Null, threw |-> TRUE]
           ELSE UNCHANGED cacheCall
        /\ apiCall' = [op |-> "updatePoints", sent |-> TRUE,
                       headers |-> GetAuthHeaders(token, orgId),
                       credential |-> token, organization |-> orgId,
                       outcome |-> o, isOffline |-> tagged,
                       result |-> IF o = "ok" THEN "data"
                                  ELSE IF tagged THEN "queued" ELSE "threw",
                       payload |-> batch,
                       saved |-> IF tagged THEN queueCall'.id ELSE 0]
        /\ token' = TokenAfter(o, token)
        /\ location' = LocationAfter(o, location)
        /\ pointsPage' = [pointsPage EXCEPT !.callback =
               IF o = "ok" \/ tagged
               THEN [pc |-> "refreshing", batch |-> batch]
               ELSE NoCallback]
        /\ UNCHANGED << cacheData, written, pass, failures, onLine, orgId,
                        workerVars, registration, push, app >>

\* The callback's refresh, participantService.getParticipants(), resolves:
\* then setPendingUpdates([]); when it throws, the callback's catch sets a
\* notification and pendingUpdates is left as it is.
RefreshResolve(v, o) ==
    /\ pointsPage.callback.pc = "refreshing"
    /\ GetParticipantsBody("{}", v, o)
    /\ pointsPage' = [pointsPage EXCEPT
           !.callback = NoCallback,
           !.pendingUpdates = IF apiCall'.result = "threw" THEN @ ELSE << >>]
    /\ UNCHANGED << registration, push, app >>

\* The points page: items selected, points changed, timers firing.
NextPoints ==
    \/ \E type \in {"participant", "group"} : HandleItemClick(type)
    \/ \E pointsToAdd \in {1} : HandlePointsChange(pointsToAdd)
    \/ TimerFires
    \/ \E o \in {"ok", "serverError"} : UpdatePointsResolve(o, FALSE)
    \/ \E o \in {"ok", "serverError"} : RefreshResolve("v1", o)

(***************************************************************************)
(* The App component (src/App.jsx).                                        *)
(***************************************************************************)
NoApp == [pc |-> "unmounted", isInitialized |-> FALSE, error |-> Null]

\* What App returns: the guard on isInitialized comes first, then the guard
\* on error, then the routed application.
Render(a) ==
    IF ~a.isInitialized THEN "loading"
    ELSE IF a.error # Null THEN "error"
    ELSE "router"

\* App mounts: the effect calls initializeApp.  A reload of the page mounts
\* it again with its initial state.
Mount ==
    /\ app.pc = "unmounted"
    /\ app' = [app EXCEPT !.pc = "fetchOrganizationId"]
    /\ UNCHANGED << now, cacheVars, queueVars, gatewayVars, workerVars,
                    registration, push, pointsPage >>

Reload ==
    /\ app.pc # "unmounted"
    /\ app' = NoApp
    /\ UNCHANGED << now, cacheVars, queueVars, gatewayVars, workerVars,
                    registration, push, pointsPage >>

\* Step 1 of initializeApp: organizationService.fetchOrganizationId().  The
\* id in localStorage is returned without a request; otherwise the id is
\* fetched, and stored on success; a response that is not ok, a body without
\* an id and a rejection all throw, and initializeApp's catch calls setError
\* and nothing else.
FetchOrganizationId(org, o) ==
    /\ app.pc = "fetchOrganizationId"
    /\ IF orgId # Null
       THEN /\ app' = [app EXCEPT !.pc = "getOrganizationSettings"]
            /\ UNCHANGED orgId
       ELSE IF o = "ok"
       THEN /\ app' = [app EXCEPT !.pc = "getOrganizationSettings"]
            /\ orgId' = org
       ELSE /\ app' = [app EXCEPT !.pc = "done", !.error = "initError"]
            /\ UNCHANGED orgId
    /\ UNCHANGED << now, cacheVars, queueVars, onLine, token, location,
                    apiCall, workerVars, registration, push, pointsPage >>

\* Step 2: organizationService.getOrganizationSettings(), in a try of its
\* own whose catch only logs, and then setIsInitialized(true).  Cached
\* settings are returned without a request; fetched settings are cached for
\* 60 minutes.
SETTINGS_CACHE_KEY == "organization_settings"
SettingsTTL == 2

GetOrganizationSettings(v, o) ==
    /\ app.pc = "getOrganizationSettings"
    /\ LET cachedData == GetResult(cacheData, SETTINGS_CACHE_KEY, now)
           afterGet == StoreAfterGet(cacheData, SETTINGS_CACHE_KEY, now)
       IN  IF cachedData # Null
           THEN /\ cacheCall' = [op |-> "get", key |-> SETTINGS_CACHE_KEY,
                                 allowStale |-> FALSE, at |-> now, ok |-> TRUE,
                                 result |-> cachedData, threw |-> FALSE]
                /\ cacheData' = afterGet
                /\ UNCHANGED now
           ELSE IF o = "ok"
           THEN \E d \in 0..MaxTick :
                /\ now + d <= MaxTime
                /\ now' = now + d
                /\ cacheData' = Put(afterGet, SETTINGS_CACHE_KEY,
                       CacheRecord(v, now, now + d, SettingsTTL))
                /\ cacheCall' = [op |-> "set", key |-> SETTINGS_CACHE_KEY,
                                 allowStale |-> FALSE, at |-> now, ok |-> TRUE,
                                 result |-> "true", threw |-> FALSE]
           ELSE /\ cacheCall' = [op |-> "get", key |-> SETTINGS_CACHE_KEY,
                                 allowStale |-> FALSE, at |-> now, ok |-> TRUE,
                                 result |-> Null, threw |-> FALSE]
                /\ cacheData' = afterGet
                /\ UNCHANGED now
    /\ app' = [app EXCEPT !.pc = "done", !.isInitialized = TRUE]
    /\ UNCHANGED << written, queueVars, gatewayVars, workerVars,
                    registration, push, pointsPage >>

\* App from its mount to the end of initializeApp, as time passes.
NextApp ==
    \/ Tick
    \/ HandleOffline
    \/ HandleOnline
    \/ Mount
    \/ Reload
    \/ \E org \in OrgIds, o \in {"ok", "serverError", "network"} :
           FetchOrganizationId(org, o)
    \/ \E v \in Values, o \in {"ok", "serverError", "network"} :
           GetOrganizationSettings(v, o)

(***************************************************************************)
(* The state after construction: empty stores, no pass running.            *)
(***************************************************************************)
Init ==
    /\ now = 0
    /\ cacheData = EmptyStore
    /\ cacheCall = NoCall
    /\ written = [k \in Keys |-> NotWritten]
    /\ offlineData = {}
    /\ nextId = 1
    /\ queueCall = NoQueueCall
    /\ requested = [i \in 1..MaxQueue |-> 0]
    /\ pass = [p \in Passes |-> IdlePass]
    /\ failures = [i \in 1..MaxQueue |-> 0]
    /\ onLine = TRUE
    /\ token = Null
    /\ orgId = Null
    /\ location = "app"
    /\ apiCall = NoApiCall
    /\ cacheStorage = EmptyStore
    /\ handler = NoHandler
    /\ served = NotServed
    /\ registration = NoRegistration
    /\ push = NoPush
    /\ pointsPage = NoPointsPage
    /\ app = NoApp

SpecCache == Init /\ [][NextCache]_vars
SpecQueue == Init /\ [][NextQueue]_vars
SpecDrain == Init /\ [][NextDrain]_vars
SpecOverlap == Init /\ [][NextOverlap]_vars
SpecPass == Init /\ [][NextPass]_vars
SpecTeardown == Init /\ [][NextTeardown]_vars
SpecReplay == Init /\ [][NextReplay]_vars
SpecApp == Init /\ [][NextApp]_vars
SpecPoints == Init /\ [][NextPoints]_vars
SpecWorker == Init /\ [][NextWorker]_vars
SpecGateway == Init /\ [][NextGateway]_vars
SpecAttendance == Init /\ [][NextAttendance]_vars
SpecStale == Init /\ [][NextStale]_vars
SpecParticipants == Init /\ [][NextParticipants]_vars
SpecFetch == Init /\ [][NextFetch]_vars
SpecStorage == Init /\ [][NextStorage]_vars
SpecReconnect == Init /\ [][NextReconnect]_vars /\ FairReconnect

(***************************************************************************)
(* Properties of the cache (SpecCache).                                    *)
(***************************************************************************)

\* C1: cache freshness.  After set(k, v, ttl) with no later write or
\* invalidate of k, a get(k) that the store serves returns v when it is made
\* at now < storedAt + ttl and absent when it is made at now >= storedAt + ttl.
C1_CacheFreshness ==
    LET w == written[cacheCall.key]
    IN  (cacheCall.op = "get" /\ ~cacheCall.allowStale /\ cacheCall.ok /\ w.valid)
        => cacheCall.result = IF cacheCall.at < w.storedAt + w.ttl
                              THEN w.data ELSE Null

\* C2: allow-stale read.  After set(k, v, ttl), getCachedData(k, true)
\* returns v at any time, also after expiry and after plain reads of k, until
\* k is invalidated or overwritten.
C2_AllowStaleRead ==
    LET w == written[cacheCall.key]
    IN  (cacheCall.op = "get" /\ cacheCall.allowStale /\ cacheCall.ok /\ w.valid)
        => cacheCall.result = w.data

\* C3: a get never modifies the store: every step of getCachedData leaves
\* cacheData as it was, also when the entry read has expired.
C3_GetLeavesStore ==
    [][(\E k \in Keys, allowStale \in BOOLEAN, fails \in BOOLEAN :
            GetCachedData(k, allowStale, fails))
       => cacheData' = cacheData]_vars

\* C4: invalidate.  After clearCachedData(k) the store holds no entry for k
\* and the call has raised no error, whether or not k was present (so a
\* second call in a row changes nothing).
C4_InvalidateIdempotent ==
    cacheCall.op = "clear"
        => (~cacheCall.threw /\ cacheCall.key \notin DOMAIN cacheData)

(***************************************************************************)
(* Properties of the queue (SpecQueue, SpecDrain, SpecOverlap).            *)
(***************************************************************************)

\* C5: enqueue then listPending.  The listing made right after a save that
\* stored a record includes that record, with status = pending and
\* retryCount = 0.
C5_EnqueueThenList ==
    (queueCall.op \in {"list", "listPending"} /\ queueCall.id # 0
         /\ (queueCall.ok \/ queueCall.threw))
        => /\ ~queueCall.threw
           /\ \E i \in 1..Len(queueCall.list) :
                  /\ queueCall.list[i].id = queueCall.id
                  /\ Field(queueCall.list[i], "status") = "pending"
                  /\ queueCall.list[i].retryCount = 0

\* Record a drains before record b: lower priority value first, ties broken
\* by creation order.
DrainsBefore(a, b) ==
    \/ requested[a] < requested[b]
    \/ requested[a] = requested[b] /\ a < b

\* C6: drain order.  Within a pass the records are dispatched in ascending
\* priority value, ties broken by creation order.
C6_DrainOrder ==
    \A p \in Passes : \A i, j \in 1..Len(pass[p].log) :
        i < j => DrainsBefore(pass[p].log[i].id, pass[p].log[j].id)

\* C7: retry ceiling.  A record whose replay has ended in a client error three
\* times in a row is no longer in the queue.
C7_RetryCeiling ==
    \A r \in offlineData : failures[r.id] < 3

\* C8: halt on offline.  Once a replay of a pass has failed for lack of a
\* network, the pass dispatches no further record.
C8_HaltOnOffline ==
    \A p \in Passes : \A i \in 1..Len(pass[p].log) :
        pass[p].log[i].outcome = "offline" => i = Len(pass[p].log)

\* C9: re-entrancy guard.  No record is being replayed by two passes at once.
C9_NoDoubleDispatch ==
    \A p, q \in Passes :
        (p # q /\ pass[p].pc = "replaying" /\ pass[q].pc = "replaying")
            => pass[p].snapshot[pass[p].idx].id # pass[q].snapshot[pass[q].idx].id

\* C10: markCompleted removes the record.  A record whose replay has succeeded
\* in a pass is no longer in the queue.
C10_CompletedRemoved ==
    \A p \in Passes : \A i \in 1..Len(pass[p].log) :
        pass[p].log[i].outcome = "ok"
            => \A r \in offlineData : r.id # pass[p].log[i].id

(***************************************************************************)
(* Properties of the gateway and of the domain calls (SpecGateway).        *)
(***************************************************************************)

\* C11: queue-on-offline.  When updateAttendance has failed with a failure
\* tagged offline, the caller has the queued result and the queue holds the
\* record this call stored, an updateAttendance record carrying the whole
\* payload; the queued result is never returned without that record.
C11_QueueOnOffline ==
    (apiCall.op = "updateAttendance" /\ apiCall.isOffline)
        => /\ apiCall.result = "queued"
           /\ \E r \in offlineData :
                  /\ r.id = apiCall.saved
                  /\ r.action = "updateAttendance"
                  /\ r.data = apiCall.payload
                  /\ r.retryCount = 0

\* C12: failure classification.  A gateway call that got no response is
\* tagged isOffline; a call that received an HTTP 4xx or 5xx is not tagged and
\* queues nothing, whatever navigator.onLine is when the failure is handled.
C12_FailureClassification ==
    (apiCall.op \in {"fetchFromApi", "updateAttendance"})
        => /\ apiCall.outcome = "network" => apiCall.isOffline
           /\ apiCall.outcome \in {"unauthorized", "clientError", "serverError"}
                  => (~apiCall.isOffline /\ apiCall.result # "queued"
                          /\ apiCall.saved = 0)

\* C13: 401 reset.  Every gateway call that receives a 401 leaves the token
\* removed and the page at the login entry, throws to its caller, and puts
\* nothing in the queue.
C13_UnauthorizedReset ==
    [][(\/ FetchFromApi("unauthorized")
        \/ \E payload \in Payloads, fails \in BOOLEAN :
               UpdateAttendance(payload, "unauthorized", fails))
       => /\ token' = Null
          /\ location' = "login"
          /\ apiCall'.result = "threw"
          /\ offlineData' = offlineData]_vars

\* C14: header attachment.  Every request sent to the remote API carries
\* Authorization exactly when a token is stored, then 'Bearer <token>', and
\* the organization header exactly when an organization id is stored.
C14_HeaderAttachment ==
    apiCall.sent
        => /\ apiCall.headers.auth =
                  IF apiCall.credential # Null
                  THEN << "Bearer", apiCall.credential >> ELSE Absent
           /\ (apiCall.headers.org # Absent) <=> (apiCall.organization # Null)

(***************************************************************************)
(* Properties of the attendance flow (SpecAttendance).                     *)
(***************************************************************************)

\* C15: invalidate-on-success.  When the replay of a queued updateAttendance
\* has succeeded, the cache serves no value for attendance_<date> any more:
\* the next getAttendance(date) misses the cache.
C15_InvalidateOnReplay ==
    [][(\E p \in Passes :
            /\ pass[p].pc = "replaying"
            /\ pass[p].snapshot[pass[p].idx].action = "updateAttendance"
            /\ ReplayResolve(p, "ok"))
       => GetResult(cacheData', AttendanceKey, now') = Null]_vars

(***************************************************************************)
(* Properties of reconnection (SpecReconnect).                             *)
(***************************************************************************)

\* C16: replay on reconnect.  Whenever the page is online and the queue holds
\* records, then, unless connectivity is lost again, the queue eventually
\* becomes empty.
C16_ReplayOnReconnect ==
    (onLine /\ offlineData # {}) ~> (offlineData = {} \/ ~onLine)

(***************************************************************************)
(* Properties of the storage layer (SpecStorage).                          *)
(***************************************************************************)

\* C17: storage errors never propagate.  A set, get, enqueue, list, delete or
\* retry-count update that the storage layer rejected has thrown nothing and
\* has returned its sentinel (false, null, the empty list); a getAttendance
\* whose cache operations were rejected has gone on to the network and
\* returned what the server sent.
C17_StorageErrorsContained ==
    /\ (cacheCall.op \in {"set", "get"} /\ ~cacheCall.ok)
           => /\ ~cacheCall.threw
              /\ cacheCall.result = IF cacheCall.op = "set" THEN "false"
                                    ELSE Null
    /\ (queueCall.op \in {"save", "list", "delete", "retry"} /\ ~queueCall.ok)
           => (~queueCall.threw /\ queueCall.list = << >>)
    /\ (apiCall.op = "getAttendance" /\ apiCall.outcome = "ok")
           => apiCall.result \in Values

\* C17, its case: the cache operations of a getAttendance have been rejected
\* and the call has returned the server's value.
C17_Witness ==
    /\ apiCall.op = "getAttendance" /\ apiCall.result = "v1"
    /\ cacheCall.op = "set" /\ ~cacheCall.ok /\ ~cacheCall.threw
    /\ AttendanceKey \notin DOMAIN cacheData

(***************************************************************************)
(* Properties of the service worker's fetch handling (SpecFetch).          *)
(***************************************************************************)

\* C18: static cache-first.  A request that is not for the API and has an
\* entry in the cache storage is answered with that entry, and no fetch of
\* the network is made for it.
C18_StaticCacheFirst ==
    /\ (served.request.origin = AppOrigin /\ served.entry # NoResponse)
           => (served.response = served.entry /\ served.networkCalls = 0)
    /\ handler.pc = "fetching" => handler.entry = NoResponse

\* C18, its case: /index.html, precached by install, has been served from
\* the cache.
C18_Witness ==
    /\ served.request.url = "/index.html"
    /\ served.entry \in {[status |-> 200, type |-> "basic", body |-> b,
                          offline |-> FALSE] : b \in Bodies}
    /\ served.response.body = served.entry.body
    /\ served.source = "cache"

C20_StaleTagging ==
    (served.request.origin = ApiOrigin /\ served.net = "fail"
         /\ served.entry # NoResponse)
        => /\ served.response.body = served.entry.body
           /\ served.response.offline
           /\ \A b \in Bodies :
                  served.response # NetworkResponse(served.request, "ok", b)

\* C21: navigation fallback.  Once install has stored the manifest, a
\* navigation that had no cache entry and whose fetch was rejected is
\* answered with a response, the offline page, not with nothing.
Installed ==
    /\ CACHE_NAME \in DOMAIN cacheStorage
    /\ STATIC_ASSETS \subseteq DOMAIN cacheStorage[CACHE_NAME]

C21_NavigationFallback ==
    (Installed /\ served.request.mode = "navigate" /\ served.net = "fail"
         /\ served.entry = NoResponse)
        => (served.response # NoResponse /\ served.source # "nothing")

\* C30: store-before-return.  When the fetch of a static miss resolves, a 200
\* of type basic is in the static cache by the time it is returned, and any
\* other outcome leaves the cache storage as it was.
C30_StoreBeforeReturn ==
    [][(\E o \in NetOutcomes, b \in Bodies : StaticFetchResolve(o, b))
       => IF served'.net = "ok" /\ served'.response.type = "basic"
          THEN CachesMatch(cacheStorage', served'.request) = served'.response
          ELSE cacheStorage' = cacheStorage]_vars

(***************************************************************************)
(* Further properties of the passes (SpecDrain).                           *)
(***************************************************************************)

\* C22: status state machine.  Every queued record has a status, one of
\* pending, processing, completed and failed.
C22_StatusStateMachine ==
    \A r \in offlineData :
        Field(r, "status") \in {"pending", "processing", "completed", "failed"}

\* The ids a pass has read and the ids it has dispatched.
SnapshotIds(ps) == {ps.snapshot[i].id : i \in 1..Len(ps.snapshot)}
LogIds(ps) == {ps.log[i].id : i \in 1..Len(ps.log)}

\* C23: snapshot isolation.  A pass that starts takes every queued record
\* into its snapshot, dispatches nothing outside the snapshot, and has
\* dispatched the whole snapshot when it ends: a record enqueued during a
\* pass is left to the next pass, and the next pass dispatches it.
C23_SnapshotIsolation ==
    [][\A p \in Passes :
           /\ (pass[p].pc = "reading" /\ pass'[p].pc # "reading")
                  => SnapshotIds(pass'[p]) = {r.id : r \in offlineData}
           /\ LogIds(pass'[p]) \subseteq SnapshotIds(pass'[p])
           /\ (pass[p].pc = "loop" /\ pass'[p].pc = "idle")
                  => LogIds(pass[p]) = SnapshotIds(pass[p])]_vars

\* C26: continue on a failure that is not offline.  When a replay ends in a
\* client or server error, the record is marked failed (its stored
\* retryCount is one higher, or the record is gone), the other records are
\* as they were, and the pass goes on with the next record of the snapshot.
C26_ContinueOnFailure ==
    [][\A p \in Passes :
           (pass[p].pc = "replaying" /\ ReplayResolve(p, "clientError"))
               => LET record == pass[p].snapshot[pass[p].idx]
                  IN  /\ pass'[p].pc = "loop"
                      /\ pass'[p].idx = pass[p].idx + 1
                      /\ \A r \in offlineData :
                             IF r.id = record.id
                             THEN \A q \in offlineData' :
                                      q.id = r.id
                                          => q.retryCount = r.retryCount + 1
                             ELSE r \in offlineData'
                      /\ \A q \in offlineData' : \E r \in offlineData :
                             r.id = q.id]_vars

\* C27: bounded retries.  No stored retryCount exceeds the ceiling, and every
\* failure of a record is counted in its stored retryCount: a record whose
\* last n replays in a row have failed has a retryCount of at least n.
C27_BoundedRetries ==
    \A r \in offlineData :
        /\ r.retryCount <= MaxRetries
        /\ failures[r.id] <= r.retryCount

(***************************************************************************)
(* Properties of the loop of one pass (SpecPass).                          *)
(***************************************************************************)

\* The records a pass has dispatched are the first records of its snapshot,
\* in the snapshot's order, each once; only the last of them can be in
\* flight, and only while the pass waits for it.
InSnapshotOrder(ps) ==
    /\ Len(ps.log) <= Len(ps.snapshot)
    /\ \A i \in 1..Len(ps.log) : ps.log[i].id = ps.snapshot[i].id
    /\ \A i, j \in 1..Len(ps.snapshot) :
           ps.snapshot[i].id = ps.snapshot[j].id => i = j
    /\ \A i \in 1..Len(ps.log) :
           ps.log[i].outcome = "inflight"
               => i = Len(ps.log) /\ ps.pc = "replaying"
    /\ ps.pc = "replaying" => Len(ps.log) = ps.idx
    /\ ps.pc = "loop" => Len(ps.log) = ps.idx - 1

\* C24: sequential replay.  Within one pass at most one replay is in flight;
\* record i+1 of the snapshot is dispatched only after the replay of record i
\* has resolved and processOfflineRecord's write to the store for it (the
\* delete, or the retry count) has been made; each snapshot record is
\* dispatched at most once per pass.
C24_SequentialReplay ==
    [][\A p \in Passes :
           /\ InSnapshotOrder(pass'[p])
           /\ Len(pass'[p].log) > Len(pass[p].log)
                  => /\ Len(pass'[p].log) = Len(pass[p].log) + 1
                     /\ pass[p].pc = "loop"
                     /\ \A i \in 1..Len(pass[p].log) :
                            pass[p].log[i].outcome # "inflight"
           /\ (pass[p].pc = "replaying" /\ pass'[p].pc # "replaying")
                  => LET record == pass[p].snapshot[pass[p].idx]
                     IN  /\ pass'[p].pc = "loop"
                         /\ pass'[p].log[Len(pass'[p].log)].outcome
                                \in Outcomes
                         /\ offlineData' = StoreAfterReplay(offlineData,
                                record, pass'[p].log[Len(pass'[p].log)].outcome)
      ]_vars

\* A pass waits for its second record, the first one resolved.
C24_Witness ==
    \E p \in Passes :
        /\ pass[p].pc = "replaying"
        /\ Len(pass[p].log) = 2
        /\ pass[p].log[1].outcome \in Outcomes
        /\ pass[p].log[2].outcome = "inflight"

(***************************************************************************)
(* Properties of a pass that is torn down (SpecTeardown).                  *)
(***************************************************************************)

C28_StaleFallback ==
    apiCall.op = "getAttendance" /\ apiCall.sent
        => /\ (apiCall.isOffline /\ written[AttendanceKey].valid)
                  => apiCall.result = written[AttendanceKey].data
           /\ apiCall.outcome = "ok" => ~apiCall.isOffline

(***************************************************************************)
(* The records of the store cacheData (SpecCache).                         *)
(***************************************************************************)

\* C29: cache entry invariant.  Every entry of the cache store has
\* expiration > timestamp, its timestamp is the time of the last set of its
\* key and its expiration is that time plus the ttl of that set.
C29_CacheEntryInvariant ==
    \A k \in DOMAIN cacheData :
        /\ cacheData[k].expiration > cacheData[k].timestamp
        /\ written[k].valid
               => /\ cacheData[k].timestamp = written[k].storedAt
                  /\ cacheData[k].expiration
                         = cacheData[k].timestamp + written[k].ttl

(***************************************************************************)
(* handleApiRequest when the network answers (SpecFetch).                  *)
(***************************************************************************)

\* C37: network success is passed through.  For a request to the API's
\* origin whose fetch returned a response, the worker answers with that
\* network response, whatever the request method and also when the put in
\* the API cache fails; the cached copy or the synthesized offline response
\* is the answer only when the fetch itself failed.
C37_NetworkPassedThrough ==
    (served.request.origin = ApiOrigin /\ served.net \in {"ok", "error"})
        => /\ served.source = "network"
           /\ served.response.type = "cors"
           /\ ~served.response.offline

(***************************************************************************)
(* What a replay does to the queue (SpecReplay).                           *)
(***************************************************************************)

\* The record a pass is replaying, and how its replay has just ended.
Replaying(p, id) ==
    /\ pass[p].pc = "replaying"
    /\ pass[p].snapshot[pass[p].idx].id = id

Ids(store) == {r.id : r \in store}

C35_CompletedMeansDelivered ==
    [][\A p \in Passes : \A r \in offlineData :
           (Replaying(p, r.id) /\ pass'[p].pc # "replaying"
            /\ pass'[p].log[Len(pass'[p].log)].outcome # "ok")
               => \E q \in offlineData' :
                      /\ q.id = r.id
                      /\ Field(q, "status") # "completed"]_vars

\* A replay has failed and its record is in the queue.
C35_Witness ==
    \E p \in Passes : \E i \in 1..Len(pass[p].log) :
        /\ pass[p].log[i].outcome \in {"clientError", "offline"}
        /\ pass[p].log[i].id \in Ids(offlineData)

(***************************************************************************)
(* The participant lists in the cache (SpecParticipants).                  *)
(***************************************************************************)

\* C36: participant list coherence.  When createParticipant has succeeded,
\* no key under which getParticipants(filters) stores a list is in the
\* cache, so a following getParticipants does not return a list cached
\* before the mutation.
C36_ParticipantListCoherence ==
    (apiCall.op = "createParticipant" /\ apiCall.outcome = "ok")
        => \A f \in Filters : ParticipantsKey(f) \notin DOMAIN cacheData

(***************************************************************************)
(* The initialization of App (SpecApp).                                    *)
(***************************************************************************)

\* C39: initialization always leaves the loading state.  Once initializeApp
\* has finished, App does not render the loading spinner: it renders the
\* routed application when initialization succeeded and the error screen
\* when fetching the organization id failed; a failure to load the settings
\* alone does not block initialization.
C39_LeavesLoading ==
    app.pc = "done"
        => /\ Render(app) # "loading"
           /\ app.error # Null => Render(app) = "error"
           /\ app.error = Null => Render(app) = "router"

(***************************************************************************)
(* The batches of the points page (SpecPoints).                            *)
(***************************************************************************)

\* How many times the update of participant a made by the given change has
\* been passed to pointsService.updatePoints.
TimesSent(change) ==
    Cardinality({ij \in (1..Len(pointsPage.sent)) \X (1..MaxChanges * 2) :
                     /\ ij[2] <= Len(pointsPage.sent[ij[1]])
                     /\ pointsPage.sent[ij[1]][ij[2]].change = change
                     /\ pointsPage.sent[ij[1]][ij[2]].participant_id = "a"})

\* C38: debounced points batching loses nothing.  At most one timer is
\* pending, and once no timer is pending and no callback is running, every
\* change the user has made has been passed to pointsService.updatePoints
\* exactly once.
C38_BatchingLosesNothing ==
    /\ Cardinality(pointsPage.timers) <= 1
    /\ (pointsPage.timers = {} /\ pointsPage.callback.pc = "idle")
           => \A change \in 1..pointsPage.made : TimesSent(change) = 1

(***************************************************************************)
(* The worker's activation and its push messages (SpecWorker).             *)
(***************************************************************************)

\* C31: activation order.  Control of the open pages is taken only after the
\* caches other than the two current ones have been deleted, and once the
\* activation has completed the cache names are among the two current names.
C31_ActivationOrder ==
    /\ registration.controlling
           => registration.controlledWith \subseteq CurrentCaches
    /\ registration.state = "activated"
           => DOMAIN cacheStorage \subseteq CurrentCaches

\* C32: push fan-out.  Once the listener's work for the push events received
\* is done, one notification has been displayed for each event and every
\* open page has received one message for each, with the title, the body and
\* the target url of the notification; a payload that is not JSON is the body
\* under the default title.
C32_PushFanOut ==
    push.matching = << >>
        => /\ Len(push.notifications) = push.events
           /\ \A c \in Clients :
                  /\ Len(push.inbox[c]) = push.events
                  /\ \A i \in 1..Len(push.inbox[c]) :
                         /\ push.inbox[c][i].title = push.notifications[i].title
                         /\ push.inbox[c][i].body = push.notifications[i].body
                         /\ push.inbox[c][i].url = push.notifications[i].url

====
